---------------------------- MODULE Spec2Model ----------------------------
(***************************************************************************)
(* Model of steam_data.py: the Steam Web API client (get_data_from_api),   *)
(* the three data fetchers built on it (get_user_info, get_playtime_data,  *)
(* get_achievements_from_game) and the Flask route home.                   *)
(*                                                                         *)
(* Python values are records of one shape, [t, n, s, c]:                   *)
(*   t  the type: "none", "bool", "num", "float", "str", "list", "dict";   *)
(*   n  the number of a num, 0/1 for a bool, the hundredths of a float     *)
(*      (the only floats are hours rounded to two decimals);               *)
(*   s  the text of a str, a sequence of tokens: identifiers are spelled   *)
(*      one character per token, literal words are one token each;         *)
(*   c  the items of a list, or the <<key, value>> pairs of a dict in      *)
(*      insertion order (Python dicts iterate in insertion order).         *)
(* An evaluation that can raise yields [exc, v]: exc is "none" and v the   *)
(* value, or exc names the exception.                                      *)
(***************************************************************************)
EXTENDS Integers, Sequences, FiniteSets, TLC

\* ------------------------------------------------------------ bounds
\* Longest game list of an owned-games response.
MaxGames == 3
\* Longest game list of an owned-games response inside a home request.
MaxHomeGames == 2
\* Longest achievement list of a player-achievements response.
MaxAchievements == 3

\* ------------------------------------------------------------ values
V(t, n, s, c) == [t |-> t, n |-> n, s |-> s, c |-> c]
None == V("none", 0, <<>>, <<>>)
Bool(b) == V("bool", IF b THEN 1 ELSE 0, <<>>, <<>>)
Num(n) == V("num", n, <<>>, <<>>)
Float(hundredths) == V("float", hundredths, <<>>, <<>>)
Str(s) == V("str", 0, s, <<>>)
List(items) == V("list", 0, <<>>, items)
Dict(pairs) == V("dict", 0, <<>>, pairs)
\* A literal word used as a key or a fixed text.
W(word) == Str(<<word>>)
EmptyDict == Dict(<<>>)

Ok(v) == [exc |-> "none", v |-> v]
Raise(e) == [exc |-> e, v |-> None]

Digits == {"0", "1", "2", "3", "4", "5", "6", "7", "8", "9"}

\* isinstance(x, str)
IsStr(x) == x.t = "str"

\* str.isdigit(): at least one character, all of them digits.
isdigit(x) == Len(x.s) > 0 /\ \A i \in 1..Len(x.s) : x.s[i] \in Digits

\* bool(x): None, False, 0, "", [] and {} are falsy.
truth(x) ==
    CASE x.t = "none" -> FALSE
      [] x.t \in {"bool", "num", "float"} -> x.n # 0
      [] x.t = "str" -> Len(x.s) > 0
      [] OTHER -> Len(x.c) > 0

HasKey(d, k) == \E i \in 1..Len(d.c) : d.c[i][1] = k

KeyIndex(d, k) == CHOOSE i \in 1..Len(d.c) : d.c[i][1] = k

\* sub occurs in text as a run of consecutive tokens ("a" in "banana").
IsSubstring(sub, text) ==
    \E i \in 0..(Len(text) - Len(sub)) :
        \A j \in 1..Len(sub) : text[i + j] = sub[j]

\* k in x, for a str k: key membership for a dict, element membership for a
\* list, substring for a str, TypeError for anything else.
contains(k, x) ==
    CASE x.t = "dict" -> Ok(Bool(HasKey(x, k)))
      [] x.t = "list" -> Ok(Bool(\E i \in 1..Len(x.c) : x.c[i] = k))
      [] x.t = "str" -> Ok(Bool(IsSubstring(k.s, x.s)))
      [] OTHER -> Raise("TypeError")

\* x[k], for a str k: the value of a dict (KeyError when absent),
\* TypeError for anything else.
getitem(x, k) ==
    IF x.t = "dict"
    THEN IF HasKey(x, k) THEN Ok(x.c[KeyIndex(x, k)][2]) ELSE Raise("KeyError")
    ELSE Raise("TypeError")

\* x[0]: the first item of a list or the first character of a str
\* (IndexError when empty), a dict's value for the key 0 (none of the
\* dicts here has one: KeyError), TypeError for anything else.
getfirst(x) ==
    CASE x.t = "list" -> IF Len(x.c) > 0 THEN Ok(x.c[1]) ELSE Raise("IndexError")
      [] x.t = "str" -> IF Len(x.s) > 0 THEN Ok(Str(<<x.s[1]>>)) ELSE Raise("IndexError")
      [] x.t = "dict" -> Raise("KeyError")
      [] OTHER -> Raise("TypeError")

\* d.get(k, default): AttributeError when d is no dict.
dictget(d, k, default) ==
    IF d.t = "dict"
    THEN Ok(IF HasKey(d, k) THEN d.c[KeyIndex(d, k)][2] ELSE default)
    ELSE Raise("AttributeError")

\* d[k] = v: a key already present keeps its position and takes the new
\* value; a new key is appended.
setitem(d, k, v) ==
    IF HasKey(d, k)
    THEN Dict([d.c EXCEPT ![KeyIndex(d, k)] = <<k, v>>])
    ELSE Dict(Append(d.c, <<k, v>>))

\* d.values(), in iteration order.
values(d) == List([i \in 1..Len(d.c) |-> d.c[i][2]])

\* iter(x) succeeds for str, list and dict, and raises TypeError otherwise.
iterable(x) == x.t \in {"str", "list", "dict"}

\* All sequences over S of length at most n.
SeqUpTo(S, n) == UNION {[1..k -> S] : k \in 0..n}

\* The items a for loop over x visits: a list's items, a dict's keys, a
\* str's characters.
items(x) ==
    CASE x.t = "list" -> x.c
      [] x.t = "dict" -> [i \in 1..Len(x.c) |-> x.c[i][1]]
      [] OTHER -> [i \in 1..Len(x.s) |-> Str(<<x.s[i]>>)]

\* ------------------------------------------------------------ text
DigitOf(d) ==
    CASE d = 0 -> "0" [] d = 1 -> "1" [] d = 2 -> "2" [] d = 3 -> "3"
      [] d = 4 -> "4" [] d = 5 -> "5" [] d = 6 -> "6" [] d = 7 -> "7"
      [] d = 8 -> "8" [] OTHER -> "9"

RECURSIVE DecimalOf(_)
\* The decimal digits of a natural number, one character per token.
DecimalOf(n) ==
    IF n < 10 THEN <<DigitOf(n)>>
    ELSE Append(DecimalOf(n \div 10), DigitOf(n % 10))

\* str(x) of a number or a str.
str(x) == IF x.t = "str" THEN x ELSE Str(DecimalOf(x.n))

\* s.replace("_", " ")
replace_underscores(x) ==
    Str([i \in 1..Len(x.s) |-> IF x.s[i] = "_" THEN " " ELSE x.s[i]])

\* ------------------------------------------------------------ the HTTP response
\* A response of requests.get: its status code and its body. json tells
\* whether the body parses as JSON, doc is the document it parses to.
Response(status_code, json, doc) ==
    [status_code |-> status_code, json |-> json, doc |-> doc]

\* response.json()
response_json(response) ==
    IF response.json THEN Ok(response.doc) ELSE Raise("JSONDecodeError")

\* The script variant of the client: only 429 is special-cased, and a body
\* that does not parse raises.
get_data_from_api_script(response) ==
    IF response.status_code = 429 THEN Ok(EmptyDict)
    ELSE response_json(response)

\* get_data_from_api, after requests.get has returned response.
get_data_from_api(response) ==
    IF response.status_code = 429 THEN Ok(EmptyDict)
    ELSE IF response.status_code # 200 THEN Ok(EmptyDict)
    ELSE LET data == response_json(response)
         IN  IF data.exc # "none" THEN Ok(EmptyDict) ELSE Ok(data.v)

\* ------------------------------------------------------------ get_playtime_data
Reverse(s) == [i \in 1..Len(s) |-> s[Len(s) + 1 - i]]

\* key=lambda x: x["playtime_forever"]
playtime_key(x) == getitem(x, W("playtime_forever"))

\* One step of the insertion sort list.sort runs on short lists: x goes
\* after every element whose key is not greater, so equal keys keep their
\* order.
insort(s, x) ==
    LET kx == playtime_key(x).v.n
        p == Cardinality({i \in 1..Len(s) : playtime_key(s[i]).v.n <= kx})
    IN  SubSeq(s, 1, p) \o <<x>> \o SubSeq(s, p + 1, Len(s))

RECURSIVE sort_ascending(_)
\* The stable ascending sort of a list whose keys are all numbers.
sort_ascending(s) ==
    IF Len(s) = 0 THEN <<>>
    ELSE insort(sort_ascending(SubSeq(s, 1, Len(s) - 1)), s[Len(s)])

\* The script variant's order: ascending.
sort_games_ascending(s) == sort_ascending(s)

\* sorted(..., reverse=True) on keys that are all numbers: the list is
\* reversed, sorted ascending and stable, and reversed again.
sort_games(s) == Reverse(sort_ascending(Reverse(s)))

\* sorted(games, key=lambda x: x["playtime_forever"], reverse=True): every
\* key is computed first (the first failure raises), then the keys are
\* compared (two keys of which one is no number: TypeError; the playtimes
\* of the responses modelled are numbers or absent).
sorted_games(games) ==
    IF ~iterable(games) THEN Raise("TypeError")
    ELSE LET s == items(games)
             bad == {i \in 1..Len(s) : playtime_key(s[i]).exc # "none"}
             first == CHOOSE i \in bad : \A j \in bad : i <= j
         IN  IF bad # {} THEN Raise(playtime_key(s[first]).exc)
             ELSE IF \A i \in 1..Len(s) : playtime_key(s[i]).v.t = "num"
             THEN Ok(List(sort_games(s)))
             ELSE IF Len(s) <= 1 THEN Ok(List(s))
             ELSE Raise("TypeError")

\* round(minutes / 60, 2), in hundredths of an hour: 100 * minutes / 60 is
\* never halfway between two integers, so this is the nearest one.
hours(minutes) == (10 * minutes + 3) \div 6

\* The value stored for one game: title and hours.
game_entry(title, minutes) ==
    Dict(<< <<W("title"), title>>, <<W("hours"), Float(hours(minutes))>> >>)

RECURSIVE play_time_of(_, _)
\* The loop over sorted_games, after its first n iterations.
play_time_of(games, n) ==
    IF n = 0 THEN Ok(EmptyDict)
    ELSE LET before == play_time_of(games, n - 1)
             game == games[n]
             appid == getitem(game, W("appid"))
         IN  IF before.exc # "none" THEN before
             ELSE IF appid.exc # "none" THEN Raise(appid.exc)
             ELSE Ok(setitem(before.v,
                             dictget(game, W("appid"), None).v,
                             game_entry(dictget(game, W("name"), str(appid.v)).v,
                                        playtime_key(game).v.n)))

\* A get_playtime_data that indexes the data without testing it, the way
\* get_achievements_from_game does.
playtime_of_data_unguarded(data) ==
    LET response == getitem(data, W("response"))
        games == getitem(response.v, W("games"))
        sorted == sorted_games(games.v)
    IN  IF response.exc # "none" THEN Raise(response.exc)
        ELSE IF games.exc # "none" THEN Raise(games.exc)
        ELSE IF sorted.exc # "none" THEN Raise(sorted.exc)
        ELSE play_time_of(sorted.v.c, Len(sorted.v.c))

\* get_playtime_data, after get_data_from_api has returned data.
playtime_of_data(data) ==
    IF ~truth(data) THEN Ok(EmptyDict)
    ELSE LET has_response == contains(W("response"), data)
         IN  IF has_response.exc # "none" THEN Raise(has_response.exc)
             ELSE IF ~truth(has_response.v) THEN Ok(EmptyDict)
             ELSE LET response == getitem(data, W("response"))
                      has_games == contains(W("games"), response.v)
                  IN  IF response.exc # "none" THEN Raise(response.exc)
                      ELSE IF has_games.exc # "none" THEN Raise(has_games.exc)
                      ELSE IF ~truth(has_games.v) THEN Ok(EmptyDict)
                      ELSE LET games == getitem(response.v, W("games"))
                               sorted == sorted_games(games.v)
                           IN  IF games.exc # "none" THEN Raise(games.exc)
                               ELSE IF sorted.exc # "none" THEN Raise(sorted.exc)
                               ELSE play_time_of(sorted.v.c, Len(sorted.v.c))

\* get_playtime_data, after requests.get has returned response.
get_playtime_data(response) ==
    LET data == get_data_from_api(response)
    IN  IF data.exc # "none" THEN Raise(data.exc) ELSE playtime_of_data(data.v)

\* ------------------------------------------------------------ get_user_info
\* {"personaname": "Invalid Steam ID"}
InvalidSteamID == Dict(<< <<W("personaname"), W("Invalid Steam ID")>> >>)

\* A vanity test that takes every str for a vanity name.
is_vanity_any_str(steamid) == IsStr(steamid)

\* isinstance(steamid, str) and not steamid.isdigit()
is_vanity(steamid) == IsStr(steamid) /\ ~isdigit(steamid)

\* response and "response" in response and "steamid" in response["response"]:
\* [exc, v], v the Bool the test yields.
has_steamid(response) ==
    IF ~truth(response) THEN Ok(Bool(FALSE))
    ELSE LET has_response == contains(W("response"), response)
         IN  IF has_response.exc # "none" THEN Raise(has_response.exc)
             ELSE IF ~truth(has_response.v) THEN Ok(Bool(FALSE))
             ELSE LET inner == getitem(response, W("response"))
                  IN  IF inner.exc # "none" THEN Raise(inner.exc)
                      ELSE contains(W("steamid"), inner.v)

\* response["response"]["steamid"]
steamid_of(response) ==
    LET inner == getitem(response, W("response"))
    IN  IF inner.exc # "none" THEN Raise(inner.exc)
        ELSE getitem(inner.v, W("steamid"))

\* A vanity branch that does not test the result: it goes on to the
\* player-summaries call with whatever .get("steamid") yields.
resolve_vanity_unchecked(response) ==
    LET data == get_data_from_api(response)
        inner == dictget(data.v, W("response"), EmptyDict)
        resolved == dictget(inner.v, W("steamid"), None)
    IN  IF inner.exc # "none" \/ resolved.exc # "none"
        THEN [kind |-> "raise", exc |-> "AttributeError", v |-> None]
        ELSE [kind |-> "next", exc |-> "none", v |-> resolved.v]

\* The vanity branch of get_user_info, after requests.get has returned
\* response: [kind, exc, v] where kind is "return" (v is returned),
\* "raise" (exc is raised) or "next" (v is the resolved steamid).
resolve_vanity(response) ==
    LET data == get_data_from_api(response)
        found == has_steamid(data.v)
        resolved == steamid_of(data.v)
    IN  IF data.exc # "none" THEN [kind |-> "raise", exc |-> data.exc, v |-> None]
        ELSE IF found.exc # "none" THEN [kind |-> "raise", exc |-> found.exc, v |-> None]
        ELSE IF ~truth(found.v) THEN [kind |-> "return", exc |-> "none", v |-> InvalidSteamID]
        ELSE IF resolved.exc # "none" THEN [kind |-> "raise", exc |-> resolved.exc, v |-> None]
        ELSE [kind |-> "next", exc |-> "none", v |-> resolved.v]

\* The rest of get_user_info, after get_data_from_api has returned data
\* for the player-summaries call.
user_info_of_data(data) ==
    IF ~truth(data) THEN Ok(InvalidSteamID)
    ELSE LET has_response == contains(W("response"), data)
         IN  IF has_response.exc # "none" THEN Raise(has_response.exc)
             ELSE IF ~truth(has_response.v) THEN Ok(InvalidSteamID)
             ELSE LET response == getitem(data, W("response"))
                      has_players == contains(W("players"), response.v)
                  IN  IF response.exc # "none" THEN Raise(response.exc)
                      ELSE IF has_players.exc # "none" THEN Raise(has_players.exc)
                      ELSE IF ~truth(has_players.v) THEN Ok(InvalidSteamID)
                      ELSE LET players == getitem(response.v, W("players"))
                               player == getfirst(players.v)
                           IN  IF players.exc # "none" THEN Raise(players.exc)
                               ELSE IF ~truth(players.v) THEN Ok(InvalidSteamID)
                               ELSE IF player.exc # "none" THEN Raise(player.exc)
                               ELSE IF ~iterable(player.v) THEN Raise("TypeError")
                               ELSE Ok(player.v)

\* The rest of get_user_info, after requests.get has returned response for
\* the player-summaries call.
player_summary(response) ==
    LET data == get_data_from_api(response)
    IN  IF data.exc # "none" THEN Raise(data.exc) ELSE user_info_of_data(data.v)

\* ------------------------------------------------------------ get_achievements_from_game
MonthName(m) ==
    CASE m = 1 -> "January" [] m = 2 -> "February" [] m = 3 -> "March"
      [] m = 4 -> "April" [] m = 5 -> "May" [] m = 6 -> "June"
      [] m = 7 -> "July" [] m = 8 -> "August" [] m = 9 -> "September"
      [] m = 10 -> "October" [] m = 11 -> "November" [] OTHER -> "December"

\* datetime.fromtimestamp(t, tz=timezone.utc) for t >= 0: the civil date
\* [y, m, d] of the day t falls on.
utc_date(t) ==
    LET z == (t \div 86400) + 719468
        era == z \div 146097
        doe == z - era * 146097
        yoe == (doe - doe \div 1460 + doe \div 36524 - doe \div 146096) \div 365
        doy == doe - (365 * yoe + yoe \div 4 - yoe \div 100)
        mp == (5 * doy + 2) \div 153
        d == doy - (153 * mp + 2) \div 5 + 1
        m == IF mp < 10 THEN mp + 3 ELSE mp - 9
        y == yoe + era * 400 + (IF m <= 2 THEN 1 ELSE 0)
    IN  [y |-> y, m |-> m, d |-> d]

\* f"Achieved on {date.strftime('%B %-d, %Y')}"
achieved_on(t) ==
    LET date == utc_date(t)
    IN  Str(<<"Achieved on ", MonthName(date.m), " ">> \o DecimalOf(date.d)
            \o <<", ">> \o DecimalOf(date.y))

\* A condition that reads the unlock time instead of the achieved flag.
is_achieved_by_unlocktime(achievement) == getitem(achievement, W("unlocktime"))

\* The condition of the conditional expression: achievement["achieved"].
is_achieved(achievement) == getitem(achievement, W("achieved"))

\* The value stored for one achievement record.
status_of(achievement) ==
    LET achieved == is_achieved(achievement)
        unlocktime == getitem(achievement, W("unlocktime"))
    IN  IF achieved.exc # "none" THEN Raise(achieved.exc)
        ELSE IF ~truth(achieved.v) THEN Ok(W("Not Achieved"))
        ELSE IF unlocktime.exc # "none" THEN Raise(unlocktime.exc)
        ELSE IF unlocktime.v.t # "num" THEN Raise("TypeError")
        ELSE Ok(achieved_on(unlocktime.v.n))

\* The key stored for one achievement record:
\* achievement["apiname"].replace("_", " ").
readable_name(achievement) ==
    LET apiname == getitem(achievement, W("apiname"))
    IN  IF apiname.exc # "none" THEN Raise(apiname.exc)
        ELSE IF apiname.v.t # "str" THEN Raise("AttributeError")
        ELSE Ok(replace_underscores(apiname.v))

RECURSIVE achievement_status_of(_, _)
\* The loop over achievements, after its first n iterations (the value is
\* evaluated before the key).
achievement_status_of(achievements, n) ==
    IF n = 0 THEN Ok(EmptyDict)
    ELSE LET before == achievement_status_of(achievements, n - 1)
             status == status_of(achievements[n])
             name == readable_name(achievements[n])
         IN  IF before.exc # "none" THEN before
             ELSE IF status.exc # "none" THEN Raise(status.exc)
             ELSE IF name.exc # "none" THEN Raise(name.exc)
             ELSE Ok(setitem(before.v, name.v, status.v))

\* A get_achievements_from_game that degrades to the empty mapping, the way
\* get_playtime_data does.
get_achievements_from_game_guarded(response) ==
    LET data == get_data_from_api(response)
        playerstats == getitem(data.v, W("playerstats"))
        achievements == getitem(playerstats.v, W("achievements"))
    IN  IF data.exc # "none" \/ playerstats.exc # "none" \/ achievements.exc # "none"
        THEN Ok(EmptyDict)
        ELSE IF ~iterable(achievements.v) THEN Ok(EmptyDict)
        ELSE achievement_status_of(items(achievements.v),
                                   Len(items(achievements.v)))

\* get_achievements_from_game, after requests.get has returned response.
get_achievements_from_game(response) ==
    LET data == get_data_from_api(response)
        playerstats == getitem(data.v, W("playerstats"))
        achievements == getitem(playerstats.v, W("achievements"))
    IN  IF data.exc # "none" THEN Raise(data.exc)
        ELSE IF playerstats.exc # "none" THEN Raise(playerstats.exc)
        ELSE IF achievements.exc # "none" THEN Raise(achievements.exc)
        ELSE IF ~iterable(achievements.v) THEN Raise("TypeError")
        ELSE achievement_status_of(items(achievements.v),
                                   Len(items(achievements.v)))

\* ------------------------------------------------------------ home
\* str(x) inside an f-string.
format(x) ==
    CASE x.t = "str" -> x.s
      [] x.t = "num" -> DecimalOf(x.n)
      [] x.t = "none" -> <<"None">>
      [] OTHER -> <<"<repr>">>

\* render_template("index.html", games=..., user_name=..., steamid=...,
\* header_message=...): the context the template is rendered with.
render_template(games, user_name, steamid, header_message) ==
    Dict(<< <<W("games"), games>>, <<W("user_name"), user_name>>,
            <<W("steamid"), steamid>>, <<W("header_message"), header_message>> >>)

\* The else branch of home: no steamid was supplied.
empty_form ==
    render_template(List(<<>>), W("Enter a Steam ID"), Str(<<>>),
                    W("Steam Game Playtime"))

\* user_info.get("personaname", "Unknown User")
user_name_of(user_info) == dictget(user_info, W("personaname"), W("Unknown User"))

\* The steamid home passes to get_playtime_data after its own call to the
\* vanity-resolution endpoint has returned response: [exc, v].
resolved_steamid_of(steamid, response) ==
    LET data == get_data_from_api(response)
        found == has_steamid(data.v)
    IN  IF data.exc # "none" THEN Raise(data.exc)
        ELSE IF found.exc # "none" THEN Raise(found.exc)
        ELSE IF truth(found.v) THEN steamid_of(data.v)
        ELSE Ok(steamid)

\* The end of the populated branch of home, after requests.get has
\* returned response for the owned-games call: [exc, v].
populated_page(steamid, user_name, response) ==
    LET playtime_data == get_playtime_data(response)
    IN  IF playtime_data.exc # "none" THEN Raise(playtime_data.exc)
        ELSE Ok(render_template(values(playtime_data.v), user_name, steamid,
                                Str(<<"Steam Game Playtime For ">> \o format(user_name))))

\* ------------------------------------------------------------ inputs
\* A JSON object written as a sequence of <<"key", value>> pairs.
Obj(pairs) == Dict([i \in 1..Len(pairs) |-> <<W(pairs[i][1]), pairs[i][2]>>])

\* STEAM_ID = "76561198839172366"
STEAM_ID ==
    Str(<<"7", "6", "5", "6", "1", "1", "9", "8", "8", "3", "9", "1", "7", "2",
          "3", "6", "6">>)

Id76 == Str(<<"7", "6">>)
Id42 == Str(<<"4", "2">>)
Id99 == Str(<<"9", "9">>)
Gabe == Str(<<"g", "a", "b", "e">>)

\* request.args.get("steamid"): absent, empty, numeric, a vanity name.
HomeArgs == {None, Str(<<>>), Id76, Gabe}

\* Arguments of get_user_info: numeric ids, vanity names (one of them
\* starting with a digit, one empty), and an int.
UserInfoArgs == {Id76, Id42, Gabe, Str(<<"7", "x">>), Str(<<>>), Num(76)}

PlaytimeArgs == {Id76, STEAM_ID}

AppIds == {440, 570}

\* Bodies of the vanity-resolution endpoint: two matches, no match, an
\* empty object, a null response.
VanityDocs ==
    { Obj(<< <<"response", Obj(<< <<"steamid", Id99>>, <<"success", Num(1)>> >>)>> >>),
      Obj(<< <<"response", Obj(<< <<"steamid", Id42>>, <<"success", Num(1)>> >>)>> >>),
      Obj(<< <<"response", Obj(<< <<"success", Num(42)>>, <<"message", W("No match")>> >>)>> >>),
      EmptyDict,
      Obj(<< <<"response", None>> >>) }

\* Bodies of the player-summaries endpoint: one player, one player without
\* a persona name, no players, no players key, an empty object, a null
\* response, a player that is no object.
SummaryDocs ==
    { Obj(<< <<"response", Obj(<< <<"players",
          List(<< Obj(<< <<"steamid", Id99>>, <<"personaname", W("Gabe")>> >>) >>)>> >>)>> >>),
      Obj(<< <<"response", Obj(<< <<"players",
          List(<< Obj(<< <<"steamid", Id99>> >>) >>)>> >>)>> >>),
      Obj(<< <<"response", Obj(<< <<"players", List(<<>>)>> >>)>> >>),
      Obj(<< <<"response", EmptyDict>> >>),
      EmptyDict,
      Obj(<< <<"response", None>> >>),
      Obj(<< <<"response", Obj(<< <<"players", List(<< W("Gabe") >>)>> >>)>> >>) }

\* Game records: two named games, a nameless game tying with the second,
\* the first appid again with another playtime, a record without playtime.
Games ==
    { Obj(<< <<"appid", Num(10)>>, <<"name", W("A")>>, <<"playtime_forever", Num(120)>> >>),
      Obj(<< <<"appid", Num(20)>>, <<"name", W("B")>>, <<"playtime_forever", Num(60)>> >>),
      Obj(<< <<"appid", Num(30)>>, <<"playtime_forever", Num(60)>> >>),
      Obj(<< <<"appid", Num(10)>>, <<"name", W("A")>>, <<"playtime_forever", Num(30)>> >>),
      Obj(<< <<"appid", Num(20)>>, <<"name", W("B")>> >>) }

\* Bodies of the owned-games endpoint with at most n games: a game list,
\* a response without games (a private profile), an empty object, a null
\* response.
OwnedDocs(n) ==
    { Obj(<< <<"response", Obj(<< <<"game_count", Num(Len(games))>>,
                                  <<"games", List(games)>> >>)>> >>)
        : games \in SeqUpTo(Games, n) }
    \cup { Obj(<< <<"response", EmptyDict>> >>), EmptyDict,
           Obj(<< <<"response", None>> >>) }

\* Achievement records: not achieved with and without an unlock time,
\* achieved, two raw names with the same readable name, a record without
\* unlock time, a record without name.
Achievements ==
    { Obj(<< <<"apiname", Str(<<"kill", "_", "boss">>)>>, <<"achieved", Num(0)>>,
             <<"unlocktime", Num(0)>> >>),
      Obj(<< <<"apiname", Str(<<"kill", "_", "boss">>)>>, <<"achieved", Num(1)>>,
             <<"unlocktime", Num(1700000000)>> >>),
      Obj(<< <<"apiname", Str(<<"kill", " ", "boss">>)>>, <<"achieved", Num(0)>>,
             <<"unlocktime", Num(1700000000)>> >>),
      Obj(<< <<"apiname", W("win")>>, <<"achieved", Num(1)>>,
             <<"unlocktime", Num(86400)>> >>),
      Obj(<< <<"apiname", W("win")>>, <<"achieved", Num(1)>> >>),
      Obj(<< <<"achieved", Num(0)>>, <<"unlocktime", Num(0)>> >>) }

\* Bodies of the player-achievements endpoint: an achievement list, a game
\* without stats, an empty object, null playerstats.
AchievementDocs ==
    { Obj(<< <<"playerstats", Obj(<< <<"steamID", STEAM_ID>>,
                                     <<"achievements", List(achievements)>>,
                                     <<"success", Bool(TRUE)>> >>)>> >>)
        : achievements \in SeqUpTo(Achievements, MaxAchievements) }
    \cup { Obj(<< <<"playerstats", Obj(<< <<"error", W("Requested app has no stats")>>,
                                          <<"success", Bool(FALSE)>> >>)>> >>),
           EmptyDict,
           Obj(<< <<"playerstats", None>> >>) }

\* The responses an endpoint with bodies docs can give: 200 with each body,
\* 200 with a body that does not parse, 429 with a body that parses, 500
\* with a body that does not parse.
Responses(docs) ==
    { Response(200, TRUE, doc) : doc \in docs }
    \cup { Response(200, FALSE, None), Response(500, FALSE, None) }
    \cup { Response(429, TRUE, doc) : doc \in {CHOOSE d \in docs : truth(d)} }

StatusCodes == {200, 204, 403, 429, 500}

\* Responses handed to get_data_from_api alone: every status with every
\* body.
AnyResponses ==
    { Response(status, TRUE, doc) :
        status \in StatusCodes, doc \in VanityDocs \cup SummaryDocs }
    \cup { Response(status, FALSE, None) : status \in StatusCodes }

\* ------------------------------------------------------------ state
VARIABLES
    op,                 \* the operation invoked: a fetcher or the route
    pc,                 \* where the operation stands
    arg,                \* its argument (home: request.args.get("steamid"))
    steamid,            \* get_user_info's steamid, rebound after resolution
    user_name,          \* home's user_name
    resolved_steamid,   \* home's resolved_steamid
    calls,              \* the requests.get calls made so far: endpoint and target
    responses,          \* the responses they returned
    ret                 \* what the operation returned or raised: [exc, v]

vars == <<op, pc, arg, steamid, user_name, resolved_steamid, calls, responses, ret>>

Call(endpoint, target) == [endpoint |-> endpoint, target |-> target]

Running == Ok(None)

Idle == pc = "idle"

Init ==
    /\ op = "none"
    /\ pc = "idle"
    /\ arg = None
    /\ steamid = None
    /\ user_name = None
    /\ resolved_steamid = None
    /\ calls = <<>>
    /\ responses = <<>>
    /\ ret = Running

\* get_data_from_api(url, params): one call, whatever the endpoint.
CallGetDataFromApi ==
    /\ Idle
    /\ \E endpoint \in {"ResolveVanityURL", "GetPlayerSummaries"},
          response \in AnyResponses :
        /\ op' = "get_data_from_api"
        /\ arg' = W(endpoint)
        /\ calls' = <<Call(endpoint, None)>>
        /\ responses' = <<response>>
        /\ ret' = get_data_from_api(response)
    /\ pc' = "done"
    /\ steamid' = None /\ user_name' = None /\ resolved_steamid' = None

\* get_playtime_data(steam_id): one call to the owned-games endpoint.
CallGetPlaytimeData ==
    /\ Idle
    /\ \E steam_id \in PlaytimeArgs, response \in Responses(OwnedDocs(MaxGames)) :
        /\ op' = "get_playtime_data"
        /\ arg' = steam_id
        /\ calls' = <<Call("GetOwnedGames", steam_id)>>
        /\ responses' = <<response>>
        /\ ret' = get_playtime_data(response)
    /\ pc' = "done"
    /\ steamid' = None /\ user_name' = None /\ resolved_steamid' = None

\* get_achievements_from_game(appid): one call to the player-achievements
\* endpoint, for STEAM_ID.
CallGetAchievementsFromGame ==
    /\ Idle
    /\ \E appid \in AppIds, response \in Responses(AchievementDocs) :
        /\ op' = "get_achievements_from_game"
        /\ arg' = Num(appid)
        /\ calls' = <<Call("GetPlayerAchievements", STEAM_ID)>>
        /\ responses' = <<response>>
        /\ ret' = get_achievements_from_game(response)
    /\ pc' = "done"
    /\ steamid' = None /\ user_name' = None /\ resolved_steamid' = None

\* get_user_info(steamid) is entered: up to its first call.
CallGetUserInfo ==
    /\ Idle
    /\ \E id \in UserInfoArgs :
        /\ arg' = id
        /\ steamid' = id
        /\ pc' = IF is_vanity(id) THEN "resolve" ELSE "summaries"
    /\ op' = "get_user_info"
    /\ calls' = <<>> /\ responses' = <<>> /\ ret' = Running
    /\ user_name' = None /\ resolved_steamid' = None

\* A request reaches home: up to its first call, or to the empty form.
Home ==
    /\ Idle
    /\ op' = "home"
    /\ calls' = <<>> /\ responses' = <<>>
    /\ user_name' = None /\ resolved_steamid' = None
    /\ \E id \in HomeArgs :
        /\ arg' = id
        /\ IF truth(id)
           THEN /\ steamid' = id
                /\ pc' = IF is_vanity(id) THEN "resolve" ELSE "summaries"
                /\ ret' = Running
           ELSE /\ steamid' = None
                /\ pc' = "done"
                /\ ret' = Ok(empty_form)

\* get_user_info returns or raises result: to its caller when it was
\* invoked alone; inside home, the route goes on to its next call.
ReturnUserInfo(result) ==
    IF op = "get_user_info"
    THEN /\ ret' = result
         /\ pc' = "done"
         /\ UNCHANGED <<user_name, resolved_steamid>>
    ELSE LET name == IF result.exc # "none" THEN Raise(result.exc)
                     ELSE user_name_of(result.v)
         IN  IF name.exc # "none"
             THEN /\ ret' = Raise(name.exc)
                  /\ pc' = "done"
                  /\ UNCHANGED <<user_name, resolved_steamid>>
             ELSE /\ user_name' = name.v
                  /\ resolved_steamid' = arg
                  /\ pc' = IF is_vanity(arg) THEN "home_resolve" ELSE "home_playtime"
                  /\ ret' = ret

\* get_user_info's call to the vanity-resolution endpoint and what follows
\* it up to the next call.
ResolveVanityURL ==
    /\ pc = "resolve"
    /\ \E response \in Responses(VanityDocs) :
        LET outcome == resolve_vanity(response)
        IN  /\ calls' = Append(calls, Call("ResolveVanityURL", steamid))
            /\ responses' = Append(responses, response)
            /\ IF outcome.kind = "next"
               THEN /\ steamid' = outcome.v
                    /\ pc' = "summaries"
                    /\ UNCHANGED <<user_name, resolved_steamid, ret>>
               ELSE /\ steamid' = steamid
                    /\ ReturnUserInfo([exc |-> outcome.exc, v |-> outcome.v])
    /\ UNCHANGED <<op, arg>>

\* get_user_info's call to the player-summaries endpoint and what follows.
GetPlayerSummaries ==
    /\ pc = "summaries"
    /\ \E response \in Responses(SummaryDocs) :
        /\ calls' = Append(calls, Call("GetPlayerSummaries", steamid))
        /\ responses' = Append(responses, response)
        /\ ReturnUserInfo(player_summary(response))
    /\ UNCHANGED <<op, arg, steamid>>

\* home's own call to the vanity-resolution endpoint.
HomeResolveVanityURL ==
    /\ pc = "home_resolve"
    /\ \E response \in Responses(VanityDocs) :
        LET resolved == resolved_steamid_of(arg, response)
        IN  /\ calls' = Append(calls, Call("ResolveVanityURL", arg))
            /\ responses' = Append(responses, response)
            /\ IF resolved.exc # "none"
               THEN /\ ret' = Raise(resolved.exc)
                    /\ pc' = "done"
                    /\ UNCHANGED resolved_steamid
               ELSE /\ resolved_steamid' = resolved.v
                    /\ pc' = "home_playtime"
                    /\ ret' = ret
    /\ UNCHANGED <<op, arg, steamid, user_name>>

\* home's call of get_playtime_data and the rendering of the page.
HomeGetOwnedGames ==
    /\ pc = "home_playtime"
    /\ \E response \in Responses(OwnedDocs(MaxHomeGames)) :
        /\ calls' = Append(calls, Call("GetOwnedGames", resolved_steamid))
        /\ responses' = Append(responses, response)
        /\ ret' = populated_page(arg, user_name, response)
    /\ pc' = "done"
    /\ UNCHANGED <<op, arg, steamid, user_name, resolved_steamid>>

\* The operation is over; nothing of it is kept.
Finish ==
    /\ pc = "done"
    /\ op' = "none"
    /\ pc' = "idle"
    /\ arg' = None
    /\ steamid' = None
    /\ user_name' = None
    /\ resolved_steamid' = None
    /\ calls' = <<>>
    /\ responses' = <<>>
    /\ ret' = Running

Next ==
    \/ Finish
    \/ CallGetDataFromApi
    \/ CallGetPlaytimeData
    \/ CallGetAchievementsFromGame
    \/ CallGetUserInfo
    \/ Home
    \/ ResolveVanityURL
    \/ GetPlayerSummaries
    \/ HomeResolveVanityURL
    \/ HomeGetOwnedGames

Spec == Init /\ [][Next]_vars

\* ------------------------------------------------------------ properties
\* What a response is, read off the response alone.
IsObj(x) == x.t = "dict"
Field(x, key) == x.c[KeyIndex(x, W(key))][2]
HasField(x, key) == IsObj(x) /\ HasKey(x, W(key))
LacksField(x, key) == IsObj(x) /\ ~HasKey(x, W(key))

\* The response is a failed one: a status other than 200, or a body that
\* does not parse.
Failed(r) == r.status_code # 200 \/ ~r.json

Done(operation) == op = operation /\ pc = "done"

CallsTo(endpoint) == {i \in 1..Len(calls) : calls[i].endpoint = endpoint}

C5_NumericSkipsResolution ==
    (op \in {"get_user_info", "home"} /\ IsStr(arg) /\ isdigit(arg)) =>
        /\ CallsTo("ResolveVanityURL") = {}
        /\ Len(calls) >= 1 => calls[1] = Call("GetPlayerSummaries", arg)
        /\ Cardinality(CallsTo("GetPlayerSummaries")) <= 1
        /\ op = "get_user_info" => Len(calls) <= 1
        /\ Done("get_user_info") => Len(calls) = 1

\* get_user_info("42") has returned after one call, to the player-summaries
\* endpoint, for "42".
C5_Witness ==
    /\ Done("get_user_info")
    /\ arg = Id42
    /\ calls = <<Call("GetPlayerSummaries", Id42)>>
    /\ ret.exc = "none"

\* The vanity-resolution response carries a steamid: a status-200 body
\* that parses to an object whose response object has a steamid field.
Resolves(r) ==
    /\ ~Failed(r)
    /\ HasField(r.doc, "response")
    /\ HasField(Field(r.doc, "response"), "steamid")

\* The vanity-resolution response failed, or is an object without a
\* response field or with a response object without a steamid field.
Unresolved(r) ==
    \/ Failed(r)
    \/ LacksField(r.doc, "response")
    \/ HasField(r.doc, "response") /\ LacksField(Field(r.doc, "response"), "steamid")

NoUsableData(r) ==
    \/ Failed(r)
    \/ r.doc = EmptyDict
    \/ LacksField(r.doc, "response")
    \/ HasField(r.doc, "response") /\ LacksField(Field(r.doc, "response"), "games")

HasAchievements(r) ==
    /\ ~Failed(r)
    /\ HasField(r.doc, "playerstats")
    /\ HasField(Field(r.doc, "playerstats"), "achievements")

\* C9: get_achievements_from_game raises whenever the fetch failed or the
\* body lacks the playerstats/achievements structure; it returns a mapping
\* only when the structure is present.
C9_AchievementsFailOutright ==
    Done("get_achievements_from_game") =>
        /\ ~HasAchievements(responses[1]) => ret.exc \in {"KeyError", "TypeError"}
        /\ ret.exc = "none" => HasAchievements(responses[1]) /\ IsObj(ret.v)

\* get_achievements_from_game has raised KeyError on a 429 response.
C9_Witness ==
    /\ Done("get_achievements_from_game")
    /\ responses[1].status_code = 429
    /\ ret.exc = "KeyError"

\* The owned-games response has the expected nested structure: a game
\* list whose records all have an appid and a playtime.
HasGames(r) ==
    /\ ~Failed(r)
    /\ HasField(r.doc, "response")
    /\ HasField(Field(r.doc, "response"), "games")
    /\ LET games == Field(Field(r.doc, "response"), "games")
       IN  /\ games.t = "list"
           /\ \A i \in 1..Len(games.c) :
                 HasField(games.c[i], "appid") /\ HasField(games.c[i], "playtime_forever")

\* The game list of such a response, as the remote API listed it.
GamesOf(r) == Field(Field(r.doc, "response"), "games").c

DistinctAppids(games) ==
    \A i, j \in 1..Len(games) :
        Field(games[i], "appid") = Field(games[j], "appid") => i = j

\* Where the API first listed the appid.
FirstListed(games, appid) ==
    CHOOSE i \in 1..Len(games) :
        /\ Field(games[i], "appid") = appid
        /\ \A j \in 1..(i - 1) : Field(games[j], "appid") # appid

\* The hours of the i-th entry of a playtime mapping, in hundredths.
HoursAt(mapping, i) == Field(mapping.c[i][2], "hours").n

\* The mapping iterates by playtime descending, and entries of equal
\* playtime in the order the API listed their appids.
DescendingStable(mapping, games) ==
    \A i, j \in 1..Len(mapping.c) :
        i < j =>
            /\ HoursAt(mapping, i) >= HoursAt(mapping, j)
            /\ HoursAt(mapping, i) = HoursAt(mapping, j) =>
                  FirstListed(games, mapping.c[i][1]) < FirstListed(games, mapping.c[j][1])

\* C4 as stated: for every owned-games response with the expected
\* structure, lists with a repeated appid included, the mapping
\* get_playtime_data returns iterates by playtime descending, ties in the
\* order the API listed them.
C4_SortedForEveryList ==
    (Done("get_playtime_data") /\ HasGames(responses[1])) =>
        /\ ret.exc = "none"
        /\ DescendingStable(ret.v, GamesOf(responses[1]))

\* C4 amended: the same when the appids of the list are pairwise distinct;
\* the mapping then has one entry per game, each with the hours of its
\* game, ordered by the playtime the API reported, descending, ties in API
\* order.
C4_SortedForDistinctAppids ==
    (Done("get_playtime_data") /\ HasGames(responses[1])
        /\ DistinctAppids(GamesOf(responses[1]))) =>
        LET games == GamesOf(responses[1])
            listed(i) == FirstListed(games, ret.v.c[i][1])
            minutes(i) == Field(games[listed(i)], "playtime_forever").n
        IN  /\ ret.exc = "none"
            /\ Len(ret.v.c) = Len(games)
            /\ DescendingStable(ret.v, games)
            /\ \A i \in 1..Len(games) : 100 * minutes(i) - 30 <= 60 * HoursAt(ret.v, i)
                                        /\ 60 * HoursAt(ret.v, i) <= 100 * minutes(i) + 30
            /\ \A i, j \in 1..Len(games) :
                  i < j => \/ minutes(i) > minutes(j)
                           \/ minutes(i) = minutes(j) /\ listed(i) < listed(j)

\* get_playtime_data has returned the games 10, 20, 30 in that order for a
\* list that named 20 and 30, tied, before 10.
C4_Witness ==
    /\ Done("get_playtime_data")
    /\ HasGames(responses[1])
    /\ LET games == GamesOf(responses[1])
       IN  /\ Len(games) = 3
           /\ [i \in 1..3 |-> Field(games[i], "appid").n] = <<20, 30, 10>>
           /\ Field(games[3], "playtime_forever").n = 120
    /\ ret.exc = "none"
    /\ [i \in 1..Len(ret.v.c) |-> ret.v.c[i][1].n] = <<10, 20, 30>>

\* The achievement records of a response that has them.
RecordsOf(r) == Field(Field(r.doc, "playerstats"), "achievements").c

\* The record is one with achieved = 0 and a name.
NotAchieved(record) ==
    /\ HasField(record, "achieved")
    /\ ~truth(Field(record, "achieved"))
    /\ HasField(record, "apiname")

\* The readable name of a record: its apiname with spaces for underscores.
Readable(record) == replace_underscores(Field(record, "apiname"))

\* C7 as stated: every record with achieved = 0 has its readable name
\* mapped to "Not Achieved", whatever else the response contains.
C7_NotAchievedWhateverElse ==
    (Done("get_achievements_from_game") /\ HasAchievements(responses[1])
        /\ ret.exc = "none") =>
        \A i \in 1..Len(RecordsOf(responses[1])) :
            LET record == RecordsOf(responses[1])[i]
            IN  NotAchieved(record) =>
                    /\ HasKey(ret.v, Readable(record))
                    /\ ret.v.c[KeyIndex(ret.v, Readable(record))][2] = W("Not Achieved")

\* C7 amended: every record with achieved = 0 that no later achieved
\* record of the same readable name follows has its readable name mapped
\* to "Not Achieved", whatever its unlocktime.
C7_NotAchievedUnlessOverwritten ==
    (Done("get_achievements_from_game") /\ HasAchievements(responses[1])
        /\ ret.exc = "none") =>
        LET records == RecordsOf(responses[1])
        IN  \A i \in 1..Len(records) :
                (/\ NotAchieved(records[i])
                 /\ \A j \in (i + 1)..Len(records) :
                       Readable(records[j]) = Readable(records[i]) =>
                           ~truth(Field(records[j], "achieved"))) =>
                    /\ HasKey(ret.v, Readable(records[i]))
                    /\ ret.v.c[KeyIndex(ret.v, Readable(records[i]))][2] = W("Not Achieved")

\* A mapping has been returned for two records, one of them achieved, the
\* other with achieved = 0 and a non-zero unlocktime, mapped to
\* "Not Achieved".
C7_Witness ==
    /\ Done("get_achievements_from_game")
    /\ HasAchievements(responses[1])
    /\ ret.exc = "none"
    /\ Len(RecordsOf(responses[1])) = 2
    /\ truth(Field(RecordsOf(responses[1])[1], "achieved"))
    /\ NotAchieved(RecordsOf(responses[1])[2])
    /\ Field(RecordsOf(responses[1])[2], "unlocktime").n # 0
    /\ ret.v.c[KeyIndex(ret.v, Readable(RecordsOf(responses[1])[2]))][2] = W("Not Achieved")

\* The calls get_user_info made inside home: a first call to the
\* vanity-resolution endpoint, and the player-summaries call.
ProfileCalls ==
    CallsTo("GetPlayerSummaries")
    \cup {i \in CallsTo("ResolveVanityURL") : i = 1}

\* C2: whatever the outbound calls return, home finishes by rendering the
\* page: it never raises, a failed profile lookup shows the sentinel name
\* and a failed playtime fetch shows an empty game list.
C2_HomeNeverRaises ==
    Done("home") =>
        /\ ret.exc = "none"
        /\ (\E i \in ProfileCalls : Failed(responses[i])) =>
              Field(ret.v, "user_name") = W("Invalid Steam ID")
        /\ (\E i \in CallsTo("GetOwnedGames") : Failed(responses[i])) =>
              Field(ret.v, "games") = List(<<>>)

\* C3: within one request of home every call to the player-summaries and
\* to the owned-games endpoint carries an all-digit identifier, and the
\* vanity-resolution endpoint is called at most once.
C3_ResolvedOnce ==
    op = "home" =>
        /\ \A i \in CallsTo("GetPlayerSummaries") \cup CallsTo("GetOwnedGames") :
              IsStr(calls[i].target) /\ isdigit(calls[i].target)
        /\ Cardinality(CallsTo("ResolveVanityURL")) <= 1

\* C10: within one request of home the player-summaries and the owned-games
\* endpoint are called with the same identifier, and when the name shown is
\* the sentinel because the identifier was not resolved, the owned-games
\* endpoint is not queried for an account resolved in that request.
C10_SameAccount ==
    op = "home" =>
        /\ \A i \in CallsTo("GetPlayerSummaries"), j \in CallsTo("GetOwnedGames") :
              calls[i].target = calls[j].target
        /\ (is_vanity(arg) /\ CallsTo("GetPlayerSummaries") = {}) =>
              \A j \in CallsTo("GetOwnedGames") :
                  ~\E i \in CallsTo("ResolveVanityURL") :
                      /\ Resolves(responses[i])
                      /\ Field(Field(responses[i].doc, "response"), "steamid")
                            = calls[j].target

=============================================================================
